---- MODULE Spec2Model ----
(***************************************************************************)
(* A model of grpcstub (src/grpcstub.go): the matcher list and capture     *)
(* logs of a stub Server, the matcher chaining API, and the four call      *)
(* shape adapters (unary, server streaming, client streaming,              *)
(* bidirectional streaming) run by concurrent gRPC workers.                *)
(*                                                                         *)
(* Strings that the code splits or trims are sequences of atoms, the       *)
(* separators "." and "/" being atoms of their own.  Generic documents     *)
(* (Message) are opaque atoms.  A *Request is its identity (call, ordinal) *)
(* together with its fields.                                               *)
(***************************************************************************)
EXTENDS Naturals, Sequences, FiniteSets, TLC

VARIABLES matchers, requests, calls, crashed, load, setupLeft, life,
          backing, snaps, writer, races, mu, gos

vars == <<matchers, requests, calls, crashed, load, setupLeft, life,
          backing, snaps, writer, races, mu, gos>>

(***************************************************************************)
(* Bounds of the model.                                                    *)
(***************************************************************************)
MaxCalls == 2
MaxSetupConc == 1
MaxRecvConc == 1
MaxSetup == 2
MaxRecv == 2
MaxChain == 4
MaxLife == 3
MaxRecvSnap == 4
MaxSnaps == 2
MaxLockMatchers == 1
MaxLockCalls == 2
MaxLockMsgs == 2
MaxLockSetup == 2

CallIds == DOMAIN calls

(***************************************************************************)
(* String helpers (strings.TrimPrefix, strings.Contains, strings.Split,    *)
(* strings.Join) over sequences of atoms.                                  *)
(***************************************************************************)
TrimPrefix(s, p) ==
    IF Len(s) >= Len(p) /\ SubSeq(s, 1, Len(p)) = p
    THEN SubSeq(s, Len(p) + 1, Len(s))
    ELSE s

Contains(s, a) == \E i \in 1..Len(s) : s[i] = a

RECURSIVE Split(_, _)
Split(s, sep) ==
    IF ~Contains(s, sep)
    THEN <<s>>
    ELSE LET i == CHOOSE j \in 1..Len(s) :
                      s[j] = sep /\ \A k \in 1..(j - 1) : s[k] # sep
         IN  <<SubSeq(s, 1, i - 1)>> \o Split(SubSeq(s, i + 1, Len(s)), sep)

RECURSIVE Join(_, _)
Join(parts, sep) ==
    IF Len(parts) = 0 THEN <<>>
    ELSE IF Len(parts) = 1 THEN parts[1]
    ELSE parts[1] \o <<sep>> \o Join(Tail(parts), sep)

Front(s) == SubSeq(s, 1, Len(s) - 1)
Last(s) == s[Len(s)]

(***************************************************************************)
(* The schema: one service with one method of each call shape.             *)
(***************************************************************************)
Shapes == {"unary", "sstream", "cstream", "bidi"}

ServiceName == <<"routeguide", ".", "RouteGuide">>

MethodFullName(shape) ==
    ServiceName \o <<".">> \o
        CASE shape = "unary" -> <<"GetFeature">>
          [] shape = "sstream" -> <<"ListFeatures">>
          [] shape = "cstream" -> <<"RecordRoute">>
          [] shape = "bidi" -> <<"RouteChat">>

splitMethodFullName(mn) ==
    LET splitted == Split(mn, ".")
    IN  [service |-> Join(Front(splitted), "."), method |-> Last(splitted)]

(***************************************************************************)
(* Request and Response.                                                   *)
(***************************************************************************)
Msgs == {"a", "b"}
DefaultDoc == "empty"

newRequest(id, shape, message) ==
    LET sm == splitMethodFullName(MethodFullName(shape))
    IN  [id |-> id, Service |-> sm.service, Method |-> sm.method,
         Message |-> message]

\* A nil *Request.
NoReq == [id |-> <<0, 0>>, Service |-> <<>>, Method |-> <<>>, Message |-> ""]

MDKeys == {"hello", "bye"}
EmptyMD == [k \in MDKeys |-> <<>>]

\* strings.ToLower on the keys the tests use.
ToLower(k) == IF k = "Hello" THEN "hello" ELSE k

\* metadata.MD.Append: k = strings.ToLower(k); md[k] = append(md[k], vals...)
MDAppend(md, k, v) == [md EXCEPT ![ToLower(k)] = Append(@, v)]

NilStatus == "nil"
ErrorCodes == {"Unknown"}
StatusErr(s) == s \in ErrorCodes

NewResponse ==
    [Headers |-> EmptyMD, Messages |-> <<>>, Trailers |-> EmptyMD,
     Status |-> NilStatus]

(***************************************************************************)
(* matchFunc values: a user predicate on the message (the set of documents *)
(* it accepts), serviceMatchFunc(service), methodMatchFunc(method).        *)
(***************************************************************************)
FnPred(accept) == [kind |-> "fn", accept |-> accept, arg |-> <<>>]

serviceMatchFunc(service) == [kind |-> "service", accept |-> {}, arg |-> service]

methodMatchFunc(method) == [kind |-> "method", accept |-> {}, arg |-> method]

ApplyMethod(method, r) ==
    IF ~Contains(method, "/")
    THEN r.Method = method
    ELSE LET splitted == Split(TrimPrefix(method, <<"/">>), "/")
             s == Join(Front(splitted), "/")
             m == Last(splitted)
         IN  r.Service = s /\ r.Method = m

ApplyPred(fn, r) ==
    CASE fn.kind = "fn" -> r.Message \in fn.accept
      [] fn.kind = "service" -> r.Service = TrimPrefix(fn.arg, <<"/">>)
      [] fn.kind = "method" -> ApplyMethod(fn.arg, r)

\* for _, fn := range m.matchFuncs { if !fn(r) { match = false } }
RECURSIVE MatchLoop(_, _, _)
MatchLoop(fns, r, match) ==
    IF Len(fns) = 0 THEN match
    ELSE MatchLoop(Tail(fns), r, IF ~ApplyPred(fns[1], r) THEN FALSE ELSE match)

\* A plausible slip: match = fn(r), so that the last predicate decides.
EvaluateLastOnly(fns, r) == Len(fns) = 0 \/ ApplyPred(fns[Len(fns)], r)

\* match := true, then the loop over m.matchFuncs.
Evaluate(fns, r) == MatchLoop(fns, r, TRUE)

(***************************************************************************)
(* handlerFunc values.  A handler is the chain of its decorators, oldest   *)
(* first; the nil handler is the empty chain; Handler(fn) restarts the     *)
(* chain with the user's function.                                         *)
(***************************************************************************)
NilHandler == <<>>

Deco(op, k, v) == [op |-> op, k |-> k, v |-> v]

\* The user function of TestBidiStreaming: answers the request's document.
EchoDoc(message) == IF message = "a" THEN "A" ELSE "B"
UserFn(name, r) ==
    [NewResponse EXCEPT !.Messages = <<EchoDoc(r.Message)>>]

ApplyDeco(d, res, r) ==
    CASE d.op = "Header" -> [res EXCEPT !.Headers = MDAppend(@, d.k, d.v)]
      [] d.op = "Trailer" -> [res EXCEPT !.Trailers = MDAppend(@, d.k, d.v)]
      [] d.op = "Response" -> [res EXCEPT !.Messages = Append(@, d.v)]
      [] d.op = "Status" -> [res EXCEPT !.Status = d.v]
      [] d.op = "Handler" -> UserFn(d.v, r)

RECURSIVE Invoke(_, _)
Invoke(h, r) ==
    IF Len(h) = 0 THEN NewResponse
    ELSE ApplyDeco(Last(h), Invoke(Front(h), r), r)

(***************************************************************************)
(* The matcher struct and the chaining API.                                *)
(***************************************************************************)
\* Variant: a constructor that leaves matchFuncs empty.
newMatcherNoPredicate(fn) ==
    [matchFuncs |-> <<>>, handler |-> NilHandler, requests |-> <<>>,
     backing |-> <<>>, decl |-> <<>>]

\* decl is a history of the matcher: the decorator calls (Header, Trailer,
\* Response, Status, Handler) made on it so far, in call order.  backing is
\* the memory of the slice m.requests (see GoAppend).
newMatcher(fn) ==
    [matchFuncs |-> <<fn>>, handler |-> NilHandler, requests |-> <<>>,
     backing |-> <<>>, decl |-> <<>>]

\* m.matchFuncs = append(m.matchFuncs, fn)
WithPred(m, fn) == [m EXCEPT !.matchFuncs = Append(@, fn)]

\* Variant: the new decorator runs before the chain it should wrap.
WithDecoFront(m, d) == [m EXCEPT !.handler = <<d>> \o @, !.decl = Append(@, d)]

\* prev := m.handler; m.handler = func(...) { res := prev(...) or NewResponse(); mutate }
WithDeco(m, d) == [m EXCEPT !.handler = Append(@, d), !.decl = Append(@, d)]

\* Variant: the user's function is installed under the chain already there.
WithHandlerFirst(m, fn) ==
    [m EXCEPT !.handler = <<Deco("Handler", "", fn)>> \o @,
              !.decl = Append(@, Deco("Handler", "", fn))]

\* m.handler = func(r, md) { return fn(r) }: the previous chain is dropped.
WithHandler(m, fn) ==
    [m EXCEPT !.handler = <<Deco("Handler", "", fn)>>,
              !.decl = Append(@, Deco("Handler", "", fn))]

\* What the setup code of a test passes to the API.
UserPreds == {FnPred({"a"})}
ServiceArgs == {ServiceName}
MethodArgs == {<<"ListFeatures">>}
HeaderArgs == {<<"hello", "header">>, <<"Hello", "again">>}
TrailerArgs == {<<"bye", "trailer">>}
ResponseArgs == {"x", "y"}
StatusArgs == {"Unknown"}
UserFns == {"echo"}

IdleCall ==
    [shape |-> "none", pc |-> "idle", nrecv |-> 0, r |-> NoReq,
     rs |-> <<>>, k |-> 0, n |-> 0, i |-> 0, headerSent |-> FALSE,
     headers |-> <<>>, trailers |-> <<>>, replies |-> <<>>, outcome |-> "",
     evals |-> <<>>, fired |-> <<>>, rerr |-> FALSE]

\* The setup call the test goroutine is inside of, if any: the field it
\* writes (of matcher m, or of the server for m = 0) and the lock it holds
\* while it does.  The test makes its setup calls one after the other.
NoWriter == [field |-> "none", m |-> 0, lock |-> "none"]

Writing(field, m, lock) == [field |-> field, m |-> m, lock |-> lock]

\* The unlocked read of `field` of matcher m (of the server for m = 0) by an
\* adapter: the races it is part of.
Racing(field, m) ==
    IF writer.field = field /\ writer.m = m THEN {field} ELSE {}

\* Whether lock `lock` of matcher m (of the server for m = 0) is free.
Free(lock, m) == ~(writer.lock = lock /\ writer.m = m)

\* The setup call returns, releasing its lock if it holds one.
SetupReturn ==
    /\ ~crashed
    /\ writer # NoWriter
    /\ writer' = NoWriter
    /\ UNCHANGED <<mu, gos, matchers, requests, calls, crashed, load, setupLeft, life,
                   backing, snaps, races>>

\* One call of the setup API by the test: at most setupLeft more of them,
\* and under a workload that does not race them, none once a call started.
Arranging == \A c \in DOMAIN calls : calls[c].pc = "idle"

SetupCall ==
    /\ setupLeft > 0
    /\ Arranging \/ load.racing
    /\ writer = NoWriter
    /\ setupLeft' = setupLeft - 1

\* s.matchers = append(s.matchers, m)
Register(fn) == Append(matchers, newMatcher(fn))

\* Server.Match
ServerMatch ==
    /\ ~crashed
    /\ SetupCall
    /\ \E fn \in UserPreds : matchers' = Register(fn)
    /\ writer' = Writing("matchers", 0, "s.mu")
    /\ UNCHANGED <<mu, gos, requests, calls, crashed, load, life, backing, snaps, races>>

\* Server.Service
ServerService ==
    /\ ~crashed
    /\ SetupCall
    /\ \E service \in ServiceArgs : matchers' = Register(serviceMatchFunc(service))
    /\ writer' = Writing("matchers", 0, "s.mu")
    /\ UNCHANGED <<mu, gos, requests, calls, crashed, load, life, backing, snaps, races>>

\* Server.Method
ServerMethod ==
    /\ ~crashed
    /\ SetupCall
    /\ \E method \in MethodArgs : matchers' = Register(methodMatchFunc(method))
    /\ writer' = Writing("matchers", 0, "s.mu")
    /\ UNCHANGED <<mu, gos, requests, calls, crashed, load, life, backing, snaps, races>>

\* matcher.Match
MatcherMatch ==
    /\ ~crashed
    /\ SetupCall
    /\ \E m \in DOMAIN matchers, fn \in UserPreds :
           /\ matchers' = [matchers EXCEPT ![m] = WithPred(@, fn)]
           /\ writer' = Writing("matchFuncs", m, "m.mu")
    /\ UNCHANGED <<mu, gos, requests, calls, crashed, load, life, backing, snaps, races>>

\* matcher.Service
MatcherService ==
    /\ ~crashed
    /\ SetupCall
    /\ \E m \in DOMAIN matchers, service \in ServiceArgs :
           /\ matchers' = [matchers EXCEPT ![m] = WithPred(@, serviceMatchFunc(service))]
           /\ writer' = Writing("matchFuncs", m, "m.mu")
    /\ UNCHANGED <<mu, gos, requests, calls, crashed, load, life, backing, snaps, races>>

\* matcher.Method
MatcherMethod ==
    /\ ~crashed
    /\ SetupCall
    /\ \E m \in DOMAIN matchers, method \in MethodArgs :
           /\ matchers' = [matchers EXCEPT ![m] = WithPred(@, methodMatchFunc(method))]
           /\ writer' = Writing("matchFuncs", m, "m.mu")
    /\ UNCHANGED <<mu, gos, requests, calls, crashed, load, life, backing, snaps, races>>

\* matcher.Header
MatcherHeader ==
    /\ ~crashed
    /\ SetupCall
    /\ \E m \in DOMAIN matchers, kv \in HeaderArgs :
           /\ matchers' = [matchers EXCEPT ![m] = WithDeco(@, Deco("Header", kv[1], kv[2]))]
           /\ writer' = Writing("handler", m, "none")
    /\ UNCHANGED <<mu, gos, requests, calls, crashed, load, life, backing, snaps, races>>

\* matcher.Trailer
MatcherTrailer ==
    /\ ~crashed
    /\ SetupCall
    /\ \E m \in DOMAIN matchers, kv \in TrailerArgs :
           /\ matchers' = [matchers EXCEPT ![m] = WithDeco(@, Deco("Trailer", kv[1], kv[2]))]
           /\ writer' = Writing("handler", m, "none")
    /\ UNCHANGED <<mu, gos, requests, calls, crashed, load, life, backing, snaps, races>>

\* matcher.Response
MatcherResponse ==
    /\ ~crashed
    /\ SetupCall
    /\ \E m \in DOMAIN matchers, message \in ResponseArgs :
           /\ matchers' = [matchers EXCEPT ![m] = WithDeco(@, Deco("Response", "", message))]
           /\ writer' = Writing("handler", m, "none")
    /\ UNCHANGED <<mu, gos, requests, calls, crashed, load, life, backing, snaps, races>>

\* matcher.Status
MatcherStatus ==
    /\ ~crashed
    /\ SetupCall
    /\ \E m \in DOMAIN matchers, st \in StatusArgs :
           /\ matchers' = [matchers EXCEPT ![m] = WithDeco(@, Deco("Status", "", st))]
           /\ writer' = Writing("handler", m, "none")
    /\ UNCHANGED <<mu, gos, requests, calls, crashed, load, life, backing, snaps, races>>

\* matcher.Handler
MatcherHandler ==
    /\ ~crashed
    /\ SetupCall
    /\ \E m \in DOMAIN matchers, fn \in UserFns :
           /\ matchers' = [matchers EXCEPT ![m] = WithHandler(@, fn)]
           /\ writer' = Writing("handler", m, "none")
    /\ UNCHANGED <<mu, gos, requests, calls, crashed, load, life, backing, snaps, races>>

(***************************************************************************)
(* The memory of a log.  A Go slice is a window (pointer, len, cap) on a   *)
(* backing array.  backing is the sequence of the arrays a log has lived   *)
(* in, the last being the one its slice points to now, each with cap       *)
(* cells; the log itself, of length len, is the first len cells of the     *)
(* last array.  Server.Requests and matcher.Requests return the slice, not *)
(* a copy: a snapshot is the window (array, len) the caller got.           *)
(***************************************************************************)
Cap(arrays) == IF Len(arrays) = 0 THEN 0 ELSE Len(arrays[Len(arrays)])

\* Variant: when the log moves to a new array the old one is wiped.
GoAppendWipeOld(arrays, n, r) ==
    IF n < Cap(arrays)
    THEN [arrays EXCEPT ![Len(arrays)][n + 1] = r]
    ELSE Append([j \in 1..Len(arrays) |->
                    IF j = Len(arrays) THEN [c \in 1..n |-> NoReq] ELSE arrays[j]],
                [j \in 1..(IF n = 0 THEN 1 ELSE 2 * n) |->
                    IF j <= n THEN arrays[Len(arrays)][j]
                    ELSE IF j = n + 1 THEN r ELSE NoReq])

\* append(s, r) on a slice of length n: in place when n < cap, and else in
\* a new array of twice the capacity (of 1 for an empty slice) to which the
\* n elements are copied, the old array being left as it is.
GoAppend(arrays, n, r) ==
    IF n < Cap(arrays)
    THEN [arrays EXCEPT ![Len(arrays)][n + 1] = r]
    ELSE Append(arrays,
                [j \in 1..(IF n = 0 THEN 1 ELSE 2 * n) |->
                    IF j <= n THEN arrays[Len(arrays)][j]
                    ELSE IF j = n + 1 THEN r ELSE NoReq])

\* The slice a Requests call returns, for the log of the server (log = 0)
\* or of matcher log: its array and length, with its elements as they were
\* when the call returned.
Snapshot(log, arrays, elems) ==
    [log |-> log, array |-> Len(arrays), len |-> Len(elems), view |-> elems]

\* Server.Requests
ServerRequests ==
    /\ ~crashed
    /\ Len(snaps) < load.nsnap
    /\ Free("s.mu", 0)
    /\ snaps' = Append(snaps, Snapshot(0, backing, requests))
    /\ UNCHANGED <<mu, gos, matchers, requests, calls, crashed, load, setupLeft, life,
                   backing, writer, races>>

\* matcher.Requests
MatcherRequests ==
    /\ ~crashed
    /\ Len(snaps) < load.nsnap
    /\ \E m \in DOMAIN matchers :
           /\ Free("m.mu", m)
           /\ snaps' = Append(snaps, Snapshot(m, matchers[m].backing,
                                              matchers[m].requests))
    /\ UNCHANGED <<mu, gos, matchers, requests, calls, crashed, load, setupLeft, life,
                   backing, writer, races>>

(***************************************************************************)
(* The lifecycle of the Server.  life holds the fields status, listener    *)
(* and cc of the Server, the state of the *grpc.Server (gstop: it accepts  *)
(* no new call, stopped: Stop closed its connections), the frame of the    *)
(* goroutine inside Close (pc, at: the status it found, path: the select   *)
(* case it took), the goroutine it spawns for GracefulStop (drain), its    *)
(* timer (timer, and tc, the number of values in the timer's channel), and *)
(* the results of the lifecycle calls that returned (rets), each with the  *)
(* status the call found on entry and whether it called t.Error.  left     *)
(* bounds the lifecycle calls explored.                                    *)
(***************************************************************************)
\* The Server returned by NewServer: startServer's deferred assignment has
\* set status_start; listener is nil when net.Listen failed.
Started(listening, n) ==
    [status |-> "start", listener |-> listening, cc |-> FALSE,
     gstop |-> FALSE, stopped |-> FALSE,
     pc |-> "idle", at |-> "start", path |-> "none",
     drain |-> "none", timer |-> "none", tc |-> 0,
     wasClosed |-> FALSE, rets |-> {}, left |-> n]

\* s.server.Serve(l) accepts calls until GracefulStop or Stop.
Serving == life.listener /\ ~life.gstop /\ ~life.stopped

\* A lifecycle call returns: its result joins the set of results seen.
Returned(l, op, at, err, val) ==
    [l EXCEPT !.rets = @ \cup {[op |-> op, at |-> at, err |-> err, val |-> val]}]

\* Close returns: the deferred s.status = status_closed runs.  The result
\* kept of a Close is the select case it took.
CloseReturn(l, err) ==
    [Returned(l, "Close", l.at, err, l.path)
        EXCEPT !.status = "closed", !.pc = "idle", !.wasClosed = TRUE]

\* Close, first statement: s.status = status_closing.
CloseBegin ==
    /\ ~crashed
    /\ life.pc = "idle"
    /\ life.left > 0
    /\ life' = [life EXCEPT !.status = "closing", !.pc = "check",
                            !.at = life.status, !.left = @ - 1]
    /\ UNCHANGED <<mu, gos, matchers, requests, calls, crashed, load, setupLeft, backing, snaps,
                   writer, races>>

\* Close up to the select: the listener test, closing cc, the goroutine for
\* GracefulStop and a new timer.
CloseCheck ==
    /\ ~crashed
    /\ life.pc = "check"
    /\ life' = IF ~life.listener
               THEN CloseReturn(life, TRUE)
               ELSE [life EXCEPT !.cc = FALSE, !.drain = "spawned",
                                 !.timer = "armed", !.tc = 0, !.path = "none",
                                 !.pc = "select"]
    /\ UNCHANGED <<mu, gos, matchers, requests, calls, crashed, load, setupLeft, backing, snaps,
                   writer, races>>

\* The spawned goroutine calls s.server.GracefulStop(): the server stops
\* accepting calls and waits for the calls in flight.
GracefulStop ==
    /\ ~crashed
    /\ life.drain = "spawned"
    /\ life' = [life EXCEPT !.drain = "running", !.gstop = TRUE]
    /\ UNCHANGED <<mu, gos, matchers, requests, calls, crashed, load, setupLeft, backing, snaps,
                   writer, races>>

\* GracefulStop returns, once no call is in flight or Stop was called, and
\* the goroutine closes done.
DrainDone ==
    /\ ~crashed
    /\ life.drain = "running"
    /\ life.stopped \/ \A c \in DOMAIN calls : calls[c].pc \in {"idle", "done"}
    /\ life' = [life EXCEPT !.drain = "done"]
    /\ UNCHANGED <<mu, gos, matchers, requests, calls, crashed, load, setupLeft, backing, snaps,
                   writer, races>>

\* The 5 second timer fires: a value is put in t.C.
TimerFire ==
    /\ ~crashed
    /\ life.timer = "armed"
    /\ life' = [life EXCEPT !.timer = "fired", !.tc = 1]
    /\ UNCHANGED <<mu, gos, matchers, requests, calls, crashed, load, setupLeft, backing, snaps,
                   writer, races>>

\* Variant: Close waits for the drain alone.
CloseSelectDoneOnly ==
    /\ ~crashed
    /\ life.pc = "select"
    /\ life.drain = "done"
    /\ life' = [life EXCEPT !.path = "done", !.pc = "stoptimer"]
    /\ UNCHANGED <<mu, gos, matchers, requests, calls, crashed, load, setupLeft, backing, snaps,
                   writer, races>>

\* select { case <-done: ... case <-t.C: s.server.Stop() }: a ready case is
\* taken, either one when both are ready.
CloseSelect ==
    /\ ~crashed
    /\ life.pc = "select"
    /\ \/ /\ life.drain = "done"
          /\ life' = [life EXCEPT !.path = "done", !.pc = "stoptimer"]
       \/ /\ life.tc = 1
          /\ life' = CloseReturn([life EXCEPT !.tc = 0, !.path = "timer",
                                              !.stopped = TRUE], FALSE)
    /\ UNCHANGED <<mu, gos, matchers, requests, calls, crashed, load, setupLeft, backing, snaps,
                   writer, races>>

\* if !t.Stop() { ... }: Stop reports whether it stopped the timer before
\* it fired.
CloseStopTimer ==
    /\ ~crashed
    /\ life.pc = "stoptimer"
    /\ life' = IF life.timer = "armed"
               THEN CloseReturn([life EXCEPT !.timer = "stopped"], FALSE)
               ELSE [life EXCEPT !.pc = "recvtimer"]
    /\ UNCHANGED <<mu, gos, matchers, requests, calls, crashed, load, setupLeft, backing, snaps,
                   writer, races>>

\* <-t.C after Stop returned false.
CloseRecvTimer ==
    /\ ~crashed
    /\ life.pc = "recvtimer"
    /\ life.tc = 1
    /\ life' = CloseReturn([life EXCEPT !.tc = 0], FALSE)
    /\ UNCHANGED <<mu, gos, matchers, requests, calls, crashed, load, setupLeft, backing, snaps,
                   writer, races>>

\* Server.Addr
Addr ==
    /\ ~crashed
    /\ life.left > 0
    /\ life' = [Returned(life, "Addr", life.status, ~life.listener,
                         IF life.listener THEN "addr" ELSE "none")
                   EXCEPT !.left = @ - 1]
    /\ UNCHANGED <<mu, gos, matchers, requests, calls, crashed, load, setupLeft, backing, snaps,
                   writer, races>>

\* Server.Conn (and ClientConn), without TLS: grpc.Dial does not connect
\* before it returns.
Conn ==
    /\ ~crashed
    /\ life.left > 0
    /\ life' = [Returned(life, "Conn", life.status, ~life.listener,
                         IF life.listener THEN "conn" ELSE "none")
                   EXCEPT !.left = @ - 1, !.cc = life.listener \/ @]
    /\ UNCHANGED <<mu, gos, matchers, requests, calls, crashed, load, setupLeft, backing, snaps,
                   writer, races>>

(***************************************************************************)
(* The call-shape adapters.  calls[c] is the frame of the worker running   *)
(* call c: its locals (r, rs, the range positions k, i over rs and over    *)
(* the matcher slice read when `range s.matchers` started, headerSent),    *)
(* what it has put on the wire (headers, trailers, replies), its result    *)
(* (outcome), and a history of what it evaluated (evals) and which handler *)
(* it invoked (fired), and whether one of its receives failed with an      *)
(* error other than io.EOF (rerr).                                         *)
(***************************************************************************)
Done(call, outcome) == [call EXCEPT !.pc = "done", !.outcome = outcome]

\* A plausible slip: the request is put in front of the log.
RecordRequestFront(log, r) == <<r>> \o log

\* s.requests = append(s.requests, r)
RecordRequest(log, r) == Append(log, r)

\* A plausible slip: the request is captured a second time.
CaptureRequestTwice(log, r) == Append(Append(log, r), r)

\* m.requests = append(m.requests, r)
CaptureRequest(log, r) == Append(log, r)

\* The result of the call when no matcher of the range matched.
NoMatchOutcome(shape) == IF shape = "sstream" THEN "OK" ELSE "NotFound"

\* The next iteration of `for _, m := range s.matchers`, and what follows
\* the loop when the range is exhausted; nm is len(s.matchers) now, read
\* when the client-streaming adapter starts the range for its next request.
\* Variant: the scan at end of input looks at the first buffered request only.
NextMatcherFirstRequestOnly(call, nm) ==
    IF call.i < call.n
    THEN [call EXCEPT !.pc = "scan", !.i = call.i + 1]
    ELSE Done(call, NoMatchOutcome(call.shape))

NextMatcher(call, nm) ==
    IF call.i < call.n
    THEN [call EXCEPT !.pc = "scan", !.i = call.i + 1]
    ELSE IF call.shape = "cstream" /\ call.k < Len(call.rs)
    THEN IF nm = 0
         THEN Done([call EXCEPT !.k = Len(call.rs)], "NotFound")
         ELSE [call EXCEPT !.pc = "scan", !.k = call.k + 1,
                           !.r = call.rs[call.k + 1], !.n = nm, !.i = 1]
    ELSE Done(call, NoMatchOutcome(call.shape))

\* Entering `for _, m := range s.matchers` for request r.
StartScan(call, nm) == NextMatcher([call EXCEPT !.n = nm, !.i = 0], nm)

\* A plausible slip: the bidirectional loop lacks `continue L` and goes on
\* to the next matcher like the server-streaming loop.
AfterResponseAllMatch(call, nm) == NextMatcher(call, nm)

\* A plausible slip: the server-streaming loop returns after its first
\* response like the unary one.
AfterResponseFirstMatch(call, nm) ==
    IF call.shape = "bidi" THEN [call EXCEPT !.pc = "recv"] ELSE Done(call, "OK")

\* What a streaming adapter does after a matched response was sent in full:
\* the server-streaming loop goes on to the next matcher, the bidirectional
\* loop does `continue L` and receives the next message.
AfterResponse(call, nm) ==
    IF call.shape = "bidi" THEN [call EXCEPT !.pc = "recv"]
    ELSE NextMatcher(call, nm)

StartCall(c) ==
    \E shape \in Shapes :
        /\ ~crashed
        /\ Serving
        /\ load.racing \/ writer = NoWriter
        /\ calls[c].pc = "idle"
        /\ \A d \in DOMAIN calls : d < c => calls[d].pc # "idle"
        /\ calls' = [calls EXCEPT ![c] = [@ EXCEPT !.shape = shape, !.pc = "recv"]]
        /\ UNCHANGED <<mu, gos, matchers, requests, crashed, load, setupLeft, life, backing, snaps,
                   writer, races>>

CanRecv(call) ==
    /\ call.pc = "recv"
    /\ IF call.shape \in {"unary", "sstream"} THEN call.nrecv = 0
       ELSE call.nrecv < load.nrecv

\* dec(in) / stream.RecvMsg(in) returned nil: the message decoded to m.
RecvMsg(c) ==
    \E m \in Msgs :
        LET call == calls[c] IN
        /\ ~crashed
        /\ ~life.stopped
        /\ CanRecv(call)
        /\ calls' = [calls EXCEPT ![c] =
               [call EXCEPT !.pc = "record", !.nrecv = call.nrecv + 1,
                            !.r = newRequest(<<c, call.nrecv + 1>>, call.shape, m)]]
        /\ UNCHANGED <<mu, gos, matchers, requests, crashed, load, setupLeft, life, backing, snaps,
                   writer, races>>

\* stream.RecvMsg(in) returned io.EOF.
RecvEOF(c) ==
    LET call == calls[c] IN
    /\ ~crashed
    /\ ~life.stopped
    /\ call.pc = "recv"
    /\ call.shape \in {"cstream", "bidi"}
    /\ races' = races \cup (IF call.shape = "cstream" /\ Len(call.rs) > 0
                             THEN Racing("matchers", 0) ELSE {})
    /\ calls' = [calls EXCEPT ![c] =
           IF call.shape = "bidi" THEN Done(call, "OK")
           ELSE IF Len(call.rs) = 0 \/ Len(matchers) = 0
           THEN Done([call EXCEPT !.k = Len(call.rs)], "NotFound")
           ELSE [call EXCEPT !.pc = "scan", !.k = 1, !.r = call.rs[1],
                             !.n = Len(matchers), !.i = 1]]
    /\ UNCHANGED <<mu, gos, matchers, requests, crashed, load, setupLeft, life, backing, snaps,
                   writer>>

\* What an adapter does with a receive error other than io.EOF: return it,
\* except that the client-streaming loop tests only err == nil and
\* err == io.EOF and so starts its next iteration, which receives again.
OnRecvErr(call) ==
    IF call.shape = "cstream" THEN [call EXCEPT !.pc = "recv"]
    ELSE Done(call, "RecvErr")

\* dec(in) / stream.RecvMsg(in) returned an error other than io.EOF.
RecvErr(c) ==
    LET call == calls[c] IN
    /\ ~crashed
    /\ call.pc = "recv"
    /\ calls' = [calls EXCEPT ![c] = OnRecvErr([call EXCEPT !.rerr = TRUE])]
    /\ UNCHANGED <<mu, gos, matchers, requests, crashed, load, setupLeft, life, backing, snaps,
                   writer, races>>

\* s.mu.Lock(); s.requests = append(s.requests, r); s.mu.Unlock(), then
\* rs = append(rs, r) (client streaming) or on to the matcher range.
Record(c) ==
    LET call == calls[c] IN
    /\ ~crashed
    /\ call.pc = "record"
    /\ Free("s.mu", 0)
    /\ requests' = RecordRequest(requests, call.r)
    /\ backing' = GoAppend(backing, Len(requests), call.r)
    /\ calls' = [calls EXCEPT ![c] =
           IF call.shape = "cstream"
           THEN [call EXCEPT !.pc = "recv", !.rs = Append(call.rs, call.r)]
           ELSE [call EXCEPT !.pc = "range"]]
    /\ UNCHANGED <<mu, gos, matchers, crashed, load, setupLeft, life, snaps,
                   writer, races>>

\* for _, m := range s.matchers: the range expression is evaluated once,
\* after s.mu was released, and no lock is taken for it.
Range(c) ==
    LET call == calls[c] IN
    /\ ~crashed
    /\ call.pc = "range"
    /\ calls' = [calls EXCEPT ![c] = StartScan(call, Len(matchers))]
    /\ races' = races \cup Racing("matchers", 0)
    /\ UNCHANGED <<mu, gos, matchers, requests, crashed, load, setupLeft, life, backing, snaps,
                   writer>>

\* A plausible slip: the request is logged whatever `match` is.
OnEvaluatedAlways(call, match, nm) == [call EXCEPT !.pc = "log"]

\* if match { ... } and otherwise the next iteration.
OnEvaluated(call, match, nm) ==
    IF match THEN [call EXCEPT !.pc = "log"] ELSE NextMatcher(call, nm)

\* One iteration of the matcher range up to `if match`.
Scan(c) ==
    LET call == calls[c]
        fns == matchers[call.i].matchFuncs
        match == Evaluate(fns, call.r)
        seen == [call EXCEPT !.evals =
                    Append(@, [r |-> call.r, m |-> call.i, fns |-> fns,
                               match |-> match])]
        again == ~match /\ call.i = call.n /\ call.shape = "cstream"
                     /\ call.k < Len(call.rs)
    IN  /\ ~crashed
        /\ call.pc = "scan"
        /\ calls' = [calls EXCEPT ![c] = OnEvaluated(seen, match, Len(matchers))]
        /\ races' = races \cup Racing("matchFuncs", call.i)
                          \cup (IF again THEN Racing("matchers", 0) ELSE {})
        /\ UNCHANGED <<mu, gos, matchers, requests, crashed, load, setupLeft, life, backing, snaps,
                   writer>>

\* m.mu.Lock(); m.requests = append(m.requests, r); m.mu.Unlock()
Log(c) ==
    LET call == calls[c] IN
    /\ ~crashed
    /\ call.pc = "log"
    /\ Free("m.mu", call.i)
    /\ matchers' = [matchers EXCEPT
           ![call.i].requests = CaptureRequest(@, call.r),
           ![call.i].backing = GoAppend(@, Len(matchers[call.i].requests), call.r)]
    /\ calls' = [calls EXCEPT ![c] = [call EXCEPT !.pc = "handle"]]
    /\ UNCHANGED <<mu, gos, requests, crashed, load, setupLeft, life, backing, snaps,
                   writer, races>>

(***************************************************************************)
(* Emission of a matched Response.  `range res.Headers` visits the keys of *)
(* a Go map in an unspecified order (ordH, ordT); nh, nt, nm are how many  *)
(* header, trailer and message sends the transport accepts before one      *)
(* fails, and enc whether json.Marshal / protojson.Unmarshal of the reply  *)
(* succeeds.                                                               *)
(***************************************************************************)
KeyOrders ==
    {ord \in [1..Cardinality(MDKeys) -> MDKeys] :
        \A x, y \in DOMAIN ord : x # y => ord[x] # ord[y]}

RECURSIVE MDPairs(_, _)
MDPairs(md, ord) ==
    IF Len(ord) = 0 THEN <<>>
    ELSE [j \in 1..Len(md[ord[1]]) |-> <<ord[1], md[ord[1]][j]>>]
             \o MDPairs(md, Tail(ord))

Prefix(s, n) == SubSeq(s, 1, n)

\* Variant: the reply is taken from the last message of the response.
ReplyDocLast(res) ==
    IF Len(res.Messages) > 0 THEN res.Messages[Len(res.Messages)] ELSE DefaultDoc

\* mes = dynamicpb.NewMessage(md.Output()); if len(res.Messages) > 0 { res.Messages[0] }
ReplyDoc(res) == IF Len(res.Messages) > 0 THEN res.Messages[1] ELSE DefaultDoc

Reply(call, doc) == [r |-> call.r.id, m |-> call.i, doc |-> doc]

\* Variant: the send loop starts at the second message of the response.
RECURSIVE RepliesSkipFirst(_, _)
RepliesSkipFirst(call, docs) ==
    IF Len(docs) <= 1 THEN <<>>
    ELSE <<Reply(call, docs[2])>> \o RepliesSkipFirst(call, Tail(docs))

RECURSIVE Replies(_, _)
Replies(call, docs) ==
    IF Len(docs) = 0 THEN <<>>
    ELSE <<Reply(call, docs[1])>> \o Replies(call, Tail(docs))

\* Variant: a unary reply carries every message of the response.
RespondUnaryAll(call, res, hs, ts, nh, nt, enc) ==
    IF StatusErr(res.Status) THEN Done(call, res.Status)
    ELSE Done([call EXCEPT !.headers = @ \o hs, !.trailers = @ \o ts,
                           !.replies = @ \o Replies(call, res.Messages)], "OK")

RespondUnary(call, res, hs, ts, nh, nt, enc) ==
    IF nh < Len(hs)
    THEN Done([call EXCEPT !.headers = @ \o Prefix(hs, nh)], "SendErr")
    ELSE IF nt < Len(ts)
    THEN Done([call EXCEPT !.headers = @ \o hs, !.trailers = @ \o Prefix(ts, nt)],
              "SendErr")
    ELSE LET sent == [call EXCEPT !.headers = @ \o hs, !.trailers = @ \o ts]
         IN  IF StatusErr(res.Status) THEN Done(sent, res.Status)
             ELSE IF Len(res.Messages) > 0 /\ ~enc THEN Done(sent, "EncodeErr")
             ELSE Done([sent EXCEPT !.replies = Append(@, Reply(call, ReplyDoc(res)))],
                       "OK")

RespondClientStream(call, res, hs, ts, nh, nm, enc) ==
    IF StatusErr(res.Status) THEN Done(call, res.Status)
    ELSE IF Len(res.Messages) > 0 /\ ~enc THEN Done(call, "EncodeErr")
    ELSE IF nh < Len(hs)
    THEN Done([call EXCEPT !.headers = @ \o Prefix(hs, nh)], "SendErr")
    ELSE LET sent == [call EXCEPT !.headers = @ \o hs, !.trailers = @ \o ts]
         IN  IF nm = 0 THEN Done(sent, "SendErr")
             ELSE Done([sent EXCEPT !.replies = Append(@, Reply(call, ReplyDoc(res)))],
                       "OK")

\* Variant: the streaming adapters never look at res.Status.
RespondStreamIgnoreStatus(call, res, hs, ts, nh, nm, latch, nmatchers) ==
    AfterResponse([call EXCEPT !.headers = @ \o hs, !.trailers = @ \o ts,
                               !.replies = @ \o Replies(call, res.Messages)],
                  nmatchers)

\* Variant: the bidirectional adapter sets headerSent but never tests it, and
\* emits the headers of every matched Response.
RespondStreamNoLatch(call, res, hs, ts, nh, nm, latch, nmatchers) ==
    LET hdone == [call EXCEPT !.headers = @ \o Prefix(hs, nh),
                              !.headerSent = IF latch THEN @ \/ nh > 0 ELSE @]
    IN  IF nh < Len(hs) THEN Done(hdone, "SendErr")
        ELSE LET sent == [hdone EXCEPT !.trailers = @ \o ts]
             IN  IF StatusErr(res.Status) THEN Done(sent, res.Status)
                 ELSE IF nm < Len(res.Messages)
                 THEN Done([sent EXCEPT !.replies =
                               @ \o Replies(call, Prefix(res.Messages, nm))],
                           "SendErr")
                 ELSE AfterResponse(
                          [sent EXCEPT !.replies = @ \o Replies(call, res.Messages)],
                          nmatchers)

\* Server streaming and bidirectional streaming; latch is TRUE for the
\* bidirectional adapter, which skips the headers once headerSent is set.
RespondStream(call, res, hs, ts, nh, nm, latch, nmatchers) ==
    LET skip == latch /\ call.headerSent
        hdone == IF skip THEN call
                 ELSE [call EXCEPT !.headers = @ \o Prefix(hs, nh),
                                   !.headerSent = IF latch THEN nh > 0 ELSE @]
    IN  IF ~skip /\ nh < Len(hs) THEN Done(hdone, "SendErr")
        ELSE LET sent == [hdone EXCEPT !.trailers = @ \o ts]
             IN  IF StatusErr(res.Status) THEN Done(sent, res.Status)
                 ELSE IF nm < Len(res.Messages)
                 THEN Done([sent EXCEPT !.replies =
                               @ \o Replies(call, Prefix(res.Messages, nm))],
                           "SendErr")
                 ELSE AfterResponse(
                          [sent EXCEPT !.replies = @ \o Replies(call, res.Messages)],
                          nmatchers)

Respond(call, res, ordH, ordT, nh, nt, nm, enc, nmatchers) ==
    LET hs == MDPairs(res.Headers, ordH)
        ts == MDPairs(res.Trailers, ordT)
    IN  CASE call.shape = "unary" -> RespondUnary(call, res, hs, ts, nh, nt, enc)
          [] call.shape = "cstream" -> RespondClientStream(call, res, hs, ts, nh, nm, enc)
          [] call.shape = "sstream" ->
                 RespondStream(call, res, hs, ts, nh, nm, FALSE, nmatchers)
          [] call.shape = "bidi" ->
                 RespondStream(call, res, hs, ts, nh, nm, TRUE, nmatchers)

Count(md) == Len(MDPairs(md, CHOOSE ord \in KeyOrders : TRUE))

\* How many of n sends the transport can accept: none once Stop has closed
\* the connection of the call.
Accepted(n) == IF life.stopped THEN 0 ELSE n

\* res := m.handler(r, md) and everything the adapter does with res.  A nil
\* m.handler makes the call a nil function call, which panics; no adapter
\* recovers, so the process ends.
Handle(c) ==
    LET call == calls[c]
        h == matchers[call.i].handler
    IN  /\ ~crashed
        /\ call.pc = "handle"
        /\ races' = races \cup Racing("handler", call.i)
        /\ IF h = NilHandler
           THEN /\ crashed' = TRUE
                /\ calls' = [calls EXCEPT ![c] =
                       Done([call EXCEPT !.fired =
                                Append(@, [r |-> call.r, m |-> call.i,
                                           nil |-> TRUE, res |-> NewResponse,
                                           decl |-> matchers[call.i].decl])],
                            "Panic")]
           ELSE LET res == Invoke(h, call.r)
                    invoked == [call EXCEPT !.fired =
                                   Append(@, [r |-> call.r, m |-> call.i,
                                              nil |-> FALSE, res |-> res,
                                              decl |-> matchers[call.i].decl])]
                IN  /\ crashed' = crashed
                    /\ \E ordH, ordT \in KeyOrders, enc \in BOOLEAN,
                          nh \in 0..Accepted(Count(res.Headers)),
                          nt \in 0..Accepted(Count(res.Trailers)),
                          nm \in 0..Accepted(IF Len(res.Messages) = 0 THEN 1
                                             ELSE Len(res.Messages)) :
                           calls' = [calls EXCEPT ![c] =
                               Respond(invoked, res, ordH, ordT, nh, nt, nm, enc,
                                       Len(matchers))]
        /\ UNCHANGED <<mu, gos, matchers, requests, load, setupLeft, life, backing, snaps,
                   writer>>

(***************************************************************************)
(* The locks.  mu[0] is s.mu and mu[m] the mu of matcher m, each a         *)
(* sync.RWMutex: w is the goroutine that holds it for writing, r the       *)
(* goroutines that hold it for reading, q the goroutines blocked in Lock,  *)
(* which keep new readers out.  gos[g] is a goroutine as the locks see it: *)
(* the lock operations and user callbacks it has yet to perform (todo),    *)
(* the locks it holds (held), whether it is inside a user callback (user), *)
(* whether every callback it invoked so far was invoked with no lock held  *)
(* (bare), and how many API calls or gRPC calls it has yet to start        *)
(* (left).  Goroutine 0 is the test, the others serve one call each.       *)
(***************************************************************************)
Locks == 0..MaxLockMatchers

Goroutines == 0..MaxLockCalls

FreeMu == [w |-> {}, r |-> {}, q |-> {}]

IdleGo(n) == [todo |-> <<>>, held |-> {}, user |-> FALSE, bare |-> TRUE, left |-> n]

Op(op, l) == [op |-> op, lock |-> l]

\* s.mu.Lock(); s.requests = append(s.requests, r); s.mu.Unlock()
RecordOps == <<Op("Lock", 0), Op("Unlock", 0)>>

\* Variant: m.mu is released after the handler has returned.
VisitHandlerLocked(m, match) ==
    <<Op("pred", m)>> \o
    (IF match THEN <<Op("Lock", m), Op("handler", m), Op("Unlock", m)>> ELSE <<>>)

\* One iteration of `range s.matchers`: the predicates of matcher m are
\* called; if match { m.mu.Lock(); append; m.mu.Unlock(); m.handler(r, md) }.
Visit(m, match) ==
    <<Op("pred", m)>> \o
    (IF match THEN <<Op("Lock", m), Op("Unlock", m), Op("handler", m)>> ELSE <<>>)

\* The iterations m..n of the matcher range; hits are the matchers whose
\* predicates all hold.
RECURSIVE VisitAll(_, _, _)
VisitAll(m, n, hits) ==
    IF m > n THEN <<>> ELSE Visit(m, m \in hits) \o VisitAll(m + 1, n, hits)

\* The matcher range of an adapter that leaves it at the first match (unary
\* return, client-streaming return, bidirectional continue L): hit is the
\* first matcher that matches, 0 if none of the n does.
ScanFirst(n, hit) ==
    IF hit = 0 THEN VisitAll(1, n, {}) ELSE VisitAll(1, hit, {hit})

UnaryOps(n, hit) == RecordOps \o ScanFirst(n, hit)

ServerStreamOps(n, hits) == RecordOps \o VisitAll(1, n, hits)

\* One round of the receive loop per message; hs[k] is the first matcher
\* that matches message k, and a message no matcher matches ends the call.
RECURSIVE BidiOps(_, _)
BidiOps(n, hs) ==
    IF Len(hs) = 0 THEN <<>>
    ELSE UnaryOps(n, hs[1]) \o (IF hs[1] = 0 THEN <<>> ELSE BidiOps(n, Tail(hs)))

\* The matcher ranges of `for _, r := range rs`, left at the first match.
RECURSIVE ScanRequests(_, _)
ScanRequests(n, hs) ==
    IF Len(hs) = 0 THEN <<>>
    ELSE ScanFirst(n, hs[1]) \o (IF hs[1] # 0 THEN <<>> ELSE ScanRequests(n, Tail(hs)))

RECURSIVE Repeat(_, _)
Repeat(ops, k) == IF k = 0 THEN <<>> ELSE ops \o Repeat(ops, k - 1)

\* Every message is recorded as it is received; the scan follows io.EOF.
ClientStreamOps(n, hs) == Repeat(RecordOps, Len(hs)) \o ScanRequests(n, hs)

HitSeqs(n) == UNION {[1..k -> 0..n] : k \in 1..MaxLockMsgs}

\* What a call does with the locks, for each shape, each number of
\* registered matchers and each way its messages match them.
AdapterPrograms ==
    UNION {{UnaryOps(n, hit) : hit \in 0..n}
           \cup {ServerStreamOps(n, hits) : hits \in SUBSET (1..n)}
           \cup {BidiOps(n, hs) : hs \in HitSeqs(n)}
           \cup {ClientStreamOps(n, hs) : hs \in HitSeqs(n)} :
           n \in 0..MaxLockMatchers}

\* Server.Match, Server.Service, Server.Method
RegisterOps == <<Op("Lock", 0), Op("Unlock", 0)>>

\* matcher.Match, matcher.Service, matcher.Method
ChainOps(m) == <<Op("Lock", m), Op("Unlock", m)>>

\* matcher.Header, Trailer, Handler, Response, Status take no lock.
DecoratorOps == <<>>

\* Server.Requests (l = 0) and matcher.Requests
RequestsOps(l) == <<Op("RLock", l), Op("RUnlock", l)>>

SetupPrograms ==
    {RegisterOps, DecoratorOps} \cup {ChainOps(m) : m \in Locks \ {0}}
        \cup {RequestsOps(l) : l \in Locks}

\* What a predicate or a handler supplied by the user may do with the
\* locks: nothing, or read a log through Requests.
UserBodies == {<<>>} \cup {RequestsOps(l) : l \in Locks}

Next1(g) == Head(gos[g].todo)

Working(g) == gos[g].todo # <<>>

Step(g, held) == [gos EXCEPT ![g].todo = Tail(@), ![g].held = held]

\* Lock can return: nobody holds the lock.
Available(l) == mu[l].w = {} /\ mu[l].r = {}

\* RLock can return: no writer holds the lock and none is blocked in Lock.
Readable(l) == mu[l].w = {} /\ mu[l].q = {}

\* The goroutine starts its next API call (the test) or gRPC call.
Go(g) ==
    /\ ~Working(g)
    /\ gos[g].left > 0
    /\ \E prog \in (IF g = 0 THEN SetupPrograms ELSE AdapterPrograms) :
           gos' = [gos EXCEPT ![g].todo = prog, ![g].left = @ - 1]
    /\ UNCHANGED <<mu, matchers, requests, calls, crashed, load, setupLeft, life,
                   backing, snaps, writer, races>>

\* mu.Lock() is entered: from now on new readers are kept out.
LockWait(g) ==
    /\ Working(g)
    /\ Next1(g).op = "Lock"
    /\ g \notin mu[Next1(g).lock].q
    /\ mu' = [mu EXCEPT ![Next1(g).lock].q = @ \cup {g}]
    /\ UNCHANGED <<gos, matchers, requests, calls, crashed, load, setupLeft, life,
                   backing, snaps, writer, races>>

\* mu.Lock() returns.
Lock(g) ==
    /\ Working(g)
    /\ Next1(g).op = "Lock"
    /\ g \in mu[Next1(g).lock].q
    /\ Available(Next1(g).lock)
    /\ mu' = [mu EXCEPT ![Next1(g).lock].q = @ \ {g}, ![Next1(g).lock].w = {g}]
    /\ gos' = Step(g, gos[g].held \cup {Next1(g).lock})
    /\ UNCHANGED <<matchers, requests, calls, crashed, load, setupLeft, life,
                   backing, snaps, writer, races>>

\* mu.Unlock()
Unlock(g) ==
    /\ Working(g)
    /\ Next1(g).op = "Unlock"
    /\ mu' = [mu EXCEPT ![Next1(g).lock].w = {}]
    /\ gos' = Step(g, gos[g].held \ {Next1(g).lock})
    /\ UNCHANGED <<matchers, requests, calls, crashed, load, setupLeft, life,
                   backing, snaps, writer, races>>

\* mu.RLock() returns.
RLock(g) ==
    /\ Working(g)
    /\ Next1(g).op = "RLock"
    /\ Readable(Next1(g).lock)
    /\ mu' = [mu EXCEPT ![Next1(g).lock].r = @ \cup {g}]
    /\ gos' = Step(g, gos[g].held \cup {Next1(g).lock})
    /\ UNCHANGED <<matchers, requests, calls, crashed, load, setupLeft, life,
                   backing, snaps, writer, races>>

\* mu.RUnlock()
RUnlock(g) ==
    /\ Working(g)
    /\ Next1(g).op = "RUnlock"
    /\ mu' = [mu EXCEPT ![Next1(g).lock].r = @ \ {g}]
    /\ gos' = Step(g, gos[g].held \ {Next1(g).lock})
    /\ UNCHANGED <<matchers, requests, calls, crashed, load, setupLeft, life,
                   backing, snaps, writer, races>>

\* fn(r) or m.handler(r, md): the adapter calls into the user's code.
Callback(g) ==
    /\ Working(g)
    /\ Next1(g).op \in {"pred", "handler"}
    /\ \E body \in UserBodies :
           gos' = [gos EXCEPT
                      ![g].todo = body \o <<Op("return", Next1(g).lock)>> \o Tail(@),
                      ![g].user = TRUE,
                      ![g].bare = @ /\ gos[g].held = {}]
    /\ UNCHANGED <<mu, matchers, requests, calls, crashed, load, setupLeft, life,
                   backing, snaps, writer, races>>

\* The user's code returns to the adapter.
CallbackReturn(g) ==
    /\ Working(g)
    /\ Next1(g).op = "return"
    /\ gos' = [Step(g, gos[g].held) EXCEPT ![g].user = FALSE]
    /\ UNCHANGED <<mu, matchers, requests, calls, crashed, load, setupLeft, life,
                   backing, snaps, writer, races>>

(***************************************************************************)
(* The specification: a server after NewServer, its setup API and its      *)
(* adapters, each call on its own worker.                                  *)
(***************************************************************************)
\* The workloads explored: MaxCalls concurrent calls of at most MaxRecvConc
\* messages each after a setup of at most MaxSetupConc API calls, or one call
\* of at most MaxRecv messages racing with a setup of at most MaxSetup calls,
\* or one call of one message on the arranged server with at most MaxLife
\* calls of Close, Addr and Conn at any time, or one call of at most
\* MaxRecvSnap messages on the arranged server with at most MaxSnaps calls of
\* Requests at any time.
Workloads ==
    {[ncalls |-> MaxCalls, nsetup |-> MaxSetupConc, nrecv |-> MaxRecvConc,
      racing |-> FALSE, nlife |-> 0, nsnap |-> 0],
     [ncalls |-> 1, nsetup |-> MaxSetup, nrecv |-> MaxRecv, racing |-> TRUE,
      nlife |-> 0, nsnap |-> 0],
     [ncalls |-> 1, nsetup |-> 0, nrecv |-> 1, racing |-> FALSE,
      nlife |-> MaxLife, nsnap |-> 0],
     [ncalls |-> 1, nsetup |-> 0, nrecv |-> MaxRecvSnap, racing |-> FALSE,
      nlife |-> 0, nsnap |-> MaxSnaps]}

\* The server when the explored part of the test starts: just built by
\* NewServer, or after s.Match(fn).Response("x") for a predicate fn.
Arranged ==
    {<<>>} \cup
    {<<WithDeco(newMatcher(fn), Deco("Response", "", "x"))>> : fn \in UserPreds}

Init ==
    /\ matchers \in Arranged
    /\ requests = <<>>
    /\ crashed = FALSE
    /\ \E w \in Workloads :
           /\ load = w
           /\ calls = [c \in 1..w.ncalls |-> IdleCall]
           /\ setupLeft = w.nsetup
           /\ \E listening \in BOOLEAN :
                  /\ w.nlife = 0 => listening
                  /\ life = Started(listening, w.nlife)
    /\ backing = <<>>
    /\ snaps = <<>>
    /\ writer = NoWriter
    /\ races = {}
    /\ mu = [l \in Locks |-> FreeMu]
    /\ gos = [g \in Goroutines |-> IdleGo(0)]

Next ==
    \/ SetupReturn
    \/ ServerMatch
    \/ ServerService
    \/ ServerMethod
    \/ MatcherMatch
    \/ MatcherService
    \/ MatcherMethod
    \/ MatcherHeader
    \/ MatcherTrailer
    \/ MatcherResponse
    \/ MatcherStatus
    \/ MatcherHandler
    \/ \E c \in CallIds : StartCall(c)
    \/ \E c \in CallIds : RecvMsg(c)
    \/ \E c \in CallIds : RecvEOF(c)
    \/ \E c \in CallIds : RecvErr(c)
    \/ \E c \in CallIds : Record(c)
    \/ \E c \in CallIds : Range(c)
    \/ \E c \in CallIds : Scan(c)
    \/ \E c \in CallIds : Log(c)
    \/ \E c \in CallIds : Handle(c)
    \/ CloseBegin
    \/ CloseCheck
    \/ GracefulStop
    \/ DrainDone
    \/ TimerFire
    \/ CloseSelect
    \/ CloseStopTimer
    \/ CloseRecvTimer
    \/ Addr
    \/ Conn
    \/ ServerRequests
    \/ MatcherRequests

Spec == Init /\ [][Next]_vars

\* The goroutine inside Close keeps running, and the runtime fires a timer
\* that is armed.  Nothing is assumed of the calls in flight, nor of the
\* drain, which waits for them.
LiveSpec ==
    /\ Spec
    /\ WF_vars(CloseCheck)
    /\ WF_vars(TimerFire)
    /\ WF_vars(CloseSelect)
    /\ WF_vars(CloseStopTimer)
    /\ WF_vars(CloseRecvTimer)

(***************************************************************************)
(* The handler chain on its own: one matcher that starts with no handler,  *)
(* at most MaxChain decorator calls on it, then one call of any shape.     *)
(***************************************************************************)
ChainInit ==
    /\ \E fn \in UserPreds : matchers = <<newMatcher(fn)>>
    /\ requests = <<>>
    /\ crashed = FALSE
    /\ load = [ncalls |-> 1, nsetup |-> MaxChain, nrecv |-> 1, racing |-> FALSE,
               nlife |-> 0, nsnap |-> 0]
    /\ calls = [c \in 1..1 |-> IdleCall]
    /\ setupLeft = MaxChain
    /\ life = Started(TRUE, 0)
    /\ backing = <<>>
    /\ snaps = <<>>
    /\ writer = NoWriter
    /\ races = {}
    /\ mu = [l \in Locks |-> FreeMu]
    /\ gos = [g \in Goroutines |-> IdleGo(0)]

ChainNext ==
    \/ SetupReturn
    \/ MatcherHeader
    \/ MatcherTrailer
    \/ MatcherResponse
    \/ MatcherStatus
    \/ MatcherHandler
    \/ \E c \in CallIds : StartCall(c)
    \/ \E c \in CallIds : RecvMsg(c)
    \/ \E c \in CallIds : RecvEOF(c)
    \/ \E c \in CallIds : RecvErr(c)
    \/ \E c \in CallIds : Record(c)
    \/ \E c \in CallIds : Range(c)
    \/ \E c \in CallIds : Scan(c)
    \/ \E c \in CallIds : Log(c)
    \/ \E c \in CallIds : Handle(c)

ChainSpec == ChainInit /\ [][ChainNext]_vars

(***************************************************************************)
(* The locks alone: the test goroutine makes at most MaxLockSetup API      *)
(* calls while MaxLockCalls calls are served, everything else at rest.     *)
(***************************************************************************)
LockInit ==
    /\ matchers = <<>>
    /\ requests = <<>>
    /\ crashed = FALSE
    /\ load = [ncalls |-> MaxLockCalls, nsetup |-> MaxLockSetup, nrecv |-> MaxLockMsgs,
               racing |-> TRUE, nlife |-> 0, nsnap |-> 0]
    /\ calls = [c \in 1..MaxLockCalls |-> IdleCall]
    /\ setupLeft = 0
    /\ life = Started(TRUE, 0)
    /\ backing = <<>>
    /\ snaps = <<>>
    /\ writer = NoWriter
    /\ races = {}
    /\ mu = [l \in Locks |-> FreeMu]
    /\ gos = [g \in Goroutines |-> IdleGo(IF g = 0 THEN MaxLockSetup ELSE 1)]

LockNext ==
    \/ \E g \in Goroutines : Go(g)
    \/ \E g \in Goroutines : LockWait(g)
    \/ \E g \in Goroutines : Lock(g)
    \/ \E g \in Goroutines : Unlock(g)
    \/ \E g \in Goroutines : RLock(g)
    \/ \E g \in Goroutines : RUnlock(g)
    \/ \E g \in Goroutines : Callback(g)
    \/ \E g \in Goroutines : CallbackReturn(g)

LockSpec == LockInit /\ [][LockNext]_vars

(***************************************************************************)
(* Vocabulary of the properties.                                           *)
(***************************************************************************)
\* Every predicate of fns returns true on r.
AllHold(fns, r) == \A j \in 1..Len(fns) : ApplyPred(fns[j], r)

Ids(log) == {log[j].id : j \in 1..Len(log)}

Positions(log, id) == {j \in 1..Len(log) : log[j].id = id}

Docs(replies) == [j \in 1..Len(replies) |-> replies[j].doc]

\* The requests call c has appended to the global log so far.
RecordedBy(c) ==
    {<<c, k>> : k \in 1..(IF calls[c].pc = "record" THEN calls[c].nrecv - 1
                          ELSE calls[c].nrecv)}

(***************************************************************************)
(* C1.  A unary call is answered by the earliest-registered matcher whose  *)
(* predicates all return true on the request: the matchers are tried in    *)
(* registration order, every matcher before the chosen one has a predicate *)
(* that is false on the request, only the chosen matcher logs the request  *)
(* and has its handler invoked, and the reply or error status is that      *)
(* handler's; when every matcher has a false predicate no handler is       *)
(* invoked and the call ends NotFound.                                     *)
(***************************************************************************)
C1_UnaryFirstMatch ==
    \A c \in DOMAIN calls :
        LET call == calls[c]
            ev == call.evals
            fi == call.fired
        IN  call.shape = "unary" =>
              /\ \A j \in 1..Len(ev) :
                     /\ ev[j].m = j
                     /\ ev[j].r = call.r
                     /\ j < Len(ev) => ~AllHold(ev[j].fns, call.r)
              /\ Len(fi) <= 1
              /\ (call.pc \in {"log", "handle"} \/ Len(fi) = 1) =>
                     Len(ev) > 0 /\ AllHold(ev[Len(ev)].fns, call.r)
              /\ Len(fi) = 1 => fi[1].m = Len(ev) /\ fi[1].r = call.r
              /\ \A m \in DOMAIN matchers :
                     call.r.id \in Ids(matchers[m].requests) =>
                         /\ m = Len(ev)
                         /\ AllHold(ev[m].fns, call.r)
                         /\ call.pc \in {"handle", "done"}
              /\ (call.pc = "done" /\ call.outcome = "NotFound") =>
                     /\ Len(fi) = 0
                     /\ Len(ev) = call.n
                     /\ \A j \in 1..Len(ev) : ~AllHold(ev[j].fns, call.r)
              /\ (call.pc = "done" /\ Len(fi) = 0) =>
                     call.outcome \in {"NotFound", "RecvErr"}
              /\ (call.pc = "done" /\ call.outcome = "OK") =>
                     /\ Len(fi) = 1
                     /\ Docs(call.replies) = <<ReplyDoc(fi[1].res)>>
              /\ (call.pc = "done" /\ call.outcome \in ErrorCodes) =>
                     Len(fi) = 1 /\ fi[1].res.Status = call.outcome

\* A unary call answered by matcher 1 although matcher 2 matches it as well.
C1_Witness ==
    \E c \in DOMAIN calls :
        /\ calls[c].shape = "unary"
        /\ calls[c].pc = "done"
        /\ calls[c].outcome = "OK"
        /\ calls[c].fired[1].m = 1
        /\ Len(matchers) >= 2
        /\ AllHold(matchers[2].matchFuncs, calls[c].r)
        /\ matchers[2].requests = <<>>

(***************************************************************************)
(* C2.  Every decoded message is in the global log (s.requests) exactly    *)
(* once from the moment its adapter has recorded it, nothing else is in    *)
(* the log, the messages of one call are in the order received, and the    *)
(* log changes only by a recording adapter appending its request at the    *)
(* end: the log order is the order of recording.                           *)
(***************************************************************************)
C2_Recorded ==
    /\ \A c \in DOMAIN calls :
           \A id \in RecordedBy(c) : Cardinality(Positions(requests, id)) = 1
    /\ \A j \in 1..Len(requests) :
           \E c \in DOMAIN calls : requests[j].id \in RecordedBy(c)
    /\ \A i, j \in 1..Len(requests) :
           (i < j /\ requests[i].id[1] = requests[j].id[1]) =>
               requests[i].id[2] < requests[j].id[2]

C2_AppendOnly ==
    \/ requests' = requests
    \/ \E c \in DOMAIN calls :
           /\ calls[c].pc = "record"
           /\ calls'[c].pc # "record"
           /\ requests' = Append(requests, calls[c].r)

C2_GlobalLog == [](C2_Recorded) /\ [][C2_AppendOnly]_vars

\* Two calls have recorded one message each; one request matched two
\* matchers and the other matched none.
C2_Witness ==
    /\ Len(requests) = 2
    /\ requests[1].id[1] # requests[2].id[1]
    /\ \E i, j \in 1..2 :
           /\ Cardinality({m \in DOMAIN matchers :
                              requests[i].id \in Ids(matchers[m].requests)}) = 2
           /\ \E c \in DOMAIN calls :
                  /\ calls[c].pc = "done"
                  /\ calls[c].outcome = "NotFound"
                  /\ calls[c].r = requests[j]

(***************************************************************************)
(* C3.  Every request in a matcher's own log (m.requests) was evaluated    *)
(* against that matcher by some adapter and every predicate the adapter    *)
(* read from the matcher returned true on it.                              *)
(***************************************************************************)
C3_MatcherLogOnlyMatched ==
    \A m \in DOMAIN matchers :
        \A p \in 1..Len(matchers[m].requests) :
            \E c \in DOMAIN calls :
                \E j \in 1..Len(calls[c].evals) :
                    LET e == calls[c].evals[j]
                    IN  /\ e.r = matchers[m].requests[p]
                        /\ e.m = m
                        /\ AllHold(e.fns, e.r)

\* A matcher with two predicates logged one request and was refused another
\* on which a predicate is false.
C3_Witness ==
    \E m \in DOMAIN matchers :
        /\ Len(matchers[m].matchFuncs) >= 2
        /\ Len(matchers[m].requests) >= 1
        /\ \E c \in DOMAIN calls :
               \E j \in 1..Len(calls[c].evals) :
                   LET e == calls[c].evals[j]
                   IN  /\ e.m = m
                       /\ Len(e.fns) >= 2
                       /\ ~AllHold(e.fns, e.r)
                       /\ e.r.id \notin Ids(matchers[m].requests)

(***************************************************************************)
(* C4.  (as claimed) A matcher's own log is in receipt order: two requests *)
(* in one matcher's log are in the order they have in the global log.      *)
(***************************************************************************)
C4_MatcherLogReceiptOrder ==
    \A m \in DOMAIN matchers :
        \A p, q \in 1..Len(matchers[m].requests) :
            p < q =>
                \A i \in Positions(requests, matchers[m].requests[p].id) :
                    \A j \in Positions(requests, matchers[m].requests[q].id) :
                        i < j

(***************************************************************************)
(* C5.  (as claimed) In every call shape a call that ends because its      *)
(* received message(s) matched no matcher ends NotFound, with the received *)
(* message(s) in the global log.                                           *)
(***************************************************************************)
EndedUnmatched(call) ==
    /\ call.pc = "done"
    /\ call.nrecv >= 1
    /\ call.outcome # "RecvErr"
    /\ \A j \in 1..Len(call.fired) : call.fired[j].r # call.r
    /\ \A j \in 1..Len(call.evals) :
           call.evals[j].r = call.r => ~AllHold(call.evals[j].fns, call.r)

C5_NoMatchNotFound ==
    \A c \in DOMAIN calls :
        EndedUnmatched(calls[c]) =>
            /\ calls[c].outcome = "NotFound"
            /\ \A k \in 1..calls[c].nrecv : <<c, k>> \in Ids(requests)

(***************************************************************************)
(* C6.  A server-streaming call evaluates the matchers in registration     *)
(* order against its one request and invokes the handler of every matcher  *)
(* whose predicates all hold, in that order; the replies sent are the      *)
(* concatenation, in that order, of the Messages of the responses (a       *)
(* prefix of it once a send failed), and a call in which no response had   *)
(* an error status and no send failed ends OK after the last matcher.      *)
(***************************************************************************)
RECURSIVE ConcatMessages(_)
ConcatMessages(fi) ==
    IF Len(fi) = 0 THEN <<>>
    ELSE fi[1].res.Messages \o ConcatMessages(Tail(fi))

IsPrefix(s, t) == Len(s) <= Len(t) /\ s = SubSeq(t, 1, Len(s))

Matched(ev) ==
    LET Holds(e) == AllHold(e.fns, e.r) IN SelectSeq(ev, Holds)

Failures == {"RecvErr", "SendErr", "EncodeErr", "Panic"}

C6_ServerStreamAllMatches ==
    \A c \in DOMAIN calls :
        LET call == calls[c]
            ev == call.evals
            fi == call.fired
            ma == Matched(ev)
        IN  call.shape = "sstream" =>
              /\ \A j \in 1..Len(ev) : ev[j].m = j /\ ev[j].r = call.r
              /\ Len(fi) <= Len(ma)
              /\ \A j \in 1..Len(fi) : fi[j].m = ma[j].m /\ fi[j].r = call.r
              /\ Len(fi) < Len(ma) =>
                     Len(fi) = Len(ma) - 1 /\ call.pc \in {"log", "handle"}
              /\ IsPrefix(Docs(call.replies), ConcatMessages(fi))
              /\ (call.pc # "done" \/ call.outcome = "OK") =>
                     Docs(call.replies) = ConcatMessages(fi)
              /\ (call.pc = "done" /\ call.outcome = "OK") =>
                     /\ Len(ev) = call.n
                     /\ \A j \in 1..Len(fi) : ~StatusErr(fi[j].res.Status)
              /\ (call.pc = "done" /\ call.outcome # "OK") =>
                     \/ call.outcome \in Failures
                     \/ /\ Len(fi) > 0
                        /\ StatusErr(fi[Len(fi)].res.Status)
                        /\ call.outcome = fi[Len(fi)].res.Status

\* Two matchers fired for one request, in registration order, and the
\* stream closed normally after the replies of both.
C6_Witness ==
    \E c \in DOMAIN calls :
        /\ calls[c].shape = "sstream"
        /\ calls[c].pc = "done"
        /\ calls[c].outcome = "OK"
        /\ Len(calls[c].fired) = 2
        /\ Docs(calls[c].replies) = <<"x", "y">>

(***************************************************************************)
(* C7.  (as claimed) A bidirectional call dispatches each received message *)
(* to every registered matcher whose predicates all hold on it: once the   *)
(* message is processed, each such matcher has had its handler invoked.    *)
(***************************************************************************)
C7_BidiAllMatches ==
    \A c \in DOMAIN calls :
        LET call == calls[c]
        IN  (/\ call.shape = "bidi"
             /\ call.nrecv >= 1
             /\ call.pc = "recv" \/ (call.pc = "done" /\ call.outcome = "OK")) =>
                \A m \in 1..call.n :
                    AllHold(matchers[m].matchFuncs, call.r) =>
                        \E j \in 1..Len(call.fired) :
                            call.fired[j].r = call.r /\ call.fired[j].m = m

(***************************************************************************)
(* C7.  (amended) A bidirectional call dispatches each received message to *)
(* the first match only: the matchers are evaluated in registration order  *)
(* up to the first whose predicates all hold, only that matcher's handler  *)
(* is invoked for the message, and its Messages are sent (a prefix once a  *)
(* send failed) before the next message is received.                       *)
(***************************************************************************)
C7_BidiFirstMatch ==
    \A c \in DOMAIN calls :
        LET call == calls[c]
            ev == call.evals
            fi == call.fired
        IN  call.shape = "bidi" =>
              /\ \A j \in 1..Len(ev) :
                     /\ ev[j].r.id[2] <= call.nrecv
                     /\ IF j > 1 /\ ev[j - 1].r = ev[j].r
                        THEN ev[j].m = ev[j - 1].m + 1 /\ ~AllHold(ev[j - 1].fns, ev[j].r)
                        ELSE ev[j].m = 1
                     /\ j > 1 => ev[j - 1].r.id[2] <= ev[j].r.id[2]
              /\ \A j \in 1..Len(fi) :
                     /\ \E e \in 1..Len(ev) :
                            /\ ev[e].r = fi[j].r
                            /\ ev[e].m = fi[j].m
                            /\ AllHold(ev[e].fns, fi[j].r)
                     /\ j > 1 => fi[j - 1].r.id[2] < fi[j].r.id[2]
              /\ IsPrefix(Docs(call.replies), ConcatMessages(fi))
              /\ (call.pc # "done" \/ call.outcome = "OK") =>
                     Docs(call.replies) = ConcatMessages(fi)
              /\ \A j \in 1..Len(call.replies) :
                     /\ \E f \in 1..Len(fi) :
                            fi[f].r.id = call.replies[j].r /\ fi[f].m = call.replies[j].m
                     /\ call.pc = "record" => call.replies[j].r[2] < call.nrecv

\* The first of two matchers whose predicates hold on a message answered
\* it, and the call went on to receive: the second was not dispatched to.
C7_Witness ==
    \E c \in DOMAIN calls :
        /\ calls[c].shape = "bidi"
        /\ calls[c].pc = "recv"
        /\ Len(calls[c].fired) = 1
        /\ calls[c].fired[1].m = 1
        /\ Len(calls[c].replies) = 1
        /\ calls[c].n >= 2
        /\ AllHold(matchers[2].matchFuncs, calls[c].r)
        /\ matchers[2].requests = <<>>

(***************************************************************************)
(* C8.  A bidirectional call that received N messages, each answered by a  *)
(* response of exactly one message, and ended OK sent exactly N replies,   *)
(* the i-th being the message of the response to the i-th request, and     *)
(* left exactly N requests of the call in the global log.                  *)
(***************************************************************************)
C8_BidiOneReplyPerMessage ==
    \A c \in DOMAIN calls :
        LET call == calls[c]
        IN  (/\ call.shape = "bidi"
             /\ call.pc = "done"
             /\ call.outcome = "OK"
             /\ \A j \in 1..Len(call.fired) :
                    Len(call.fired[j].res.Messages) = 1) =>
                /\ Len(call.replies) = call.nrecv
                /\ Len(call.fired) = call.nrecv
                /\ \A i \in 1..call.nrecv :
                       /\ call.replies[i].r = <<c, i>>
                       /\ call.fired[i].r.id = <<c, i>>
                       /\ call.replies[i].doc = call.fired[i].res.Messages[1]
                /\ Cardinality({j \in 1..Len(requests) : requests[j].id[1] = c})
                       = call.nrecv

\* Two messages, each satisfying the predicates of two registered matchers,
\* were answered by one reply each.
C8_Witness ==
    \E c \in DOMAIN calls :
        /\ calls[c].shape = "bidi"
        /\ calls[c].pc = "done"
        /\ calls[c].outcome = "OK"
        /\ calls[c].nrecv = 2
        /\ Len(calls[c].replies) = 2
        /\ Len(matchers) >= 2
        /\ \A j \in 1..2 :
               /\ Len(calls[c].fired[j].res.Messages) = 1
               /\ \A m \in 1..2 : AllHold(matchers[m].matchFuncs, calls[c].fired[j].r)

RECURSIVE MessagesFor(_, _)
MessagesFor(fi, id) ==
    IF Len(fi) = 0 THEN 0
    ELSE (IF fi[1].r.id = id THEN Len(fi[1].res.Messages) ELSE 0)
         + MessagesFor(Tail(fi), id)

RepliesTo(call, id) ==
    Cardinality({j \in 1..Len(call.replies) : call.replies[j].r = id})

C10_ReplyBound ==
    \A c \in DOMAIN calls :
        LET call == calls[c]
        IN  /\ call.shape \in {"unary", "cstream"} => Len(call.replies) <= 1
            /\ call.shape \in {"sstream", "bidi"} =>
                   /\ \A k \in 1..call.nrecv :
                          RepliesTo(call, <<c, k>>) <= MessagesFor(call.fired, <<c, k>>)
                   /\ \A j \in 1..Len(call.replies) :
                          call.replies[j].r[1] = c /\ call.replies[j].r[2] \in 1..call.nrecv

\* A unary call answered with one reply from a response of two messages,
\* beside a server-streaming call that sent both messages of its response.
C10_Witness ==
    \E c, d \in DOMAIN calls :
        /\ calls[c].shape = "unary"
        /\ calls[c].pc = "done"
        /\ calls[c].outcome = "OK"
        /\ Len(calls[c].fired[1].res.Messages) = 2
        /\ Len(calls[c].replies) = 1
        /\ calls[d].shape = "sstream"
        /\ calls[d].pc = "done"
        /\ Len(calls[d].fired) = 1
        /\ Len(calls[d].replies) = 2

(***************************************************************************)
(* Vocabulary of the handler chain properties: what a sequence of          *)
(* decorator calls declares.                                               *)
(***************************************************************************)
\* The values declared by the calls of decorator op (under key k for the
\* metadata decorators, whose keys are compared in lower case), in call order.
Declared(d, op, k) ==
    LET Sel(x) == x.op = op /\ (op \in {"Header", "Trailer"} => ToLower(x.k) = k)
        sel == SelectSeq(d, Sel)
    IN  [j \in 1..Len(sel) |-> sel[j].v]

\* The status of the last Status call, or base when there is none.
LastStatus(d, base) ==
    LET Sel(x) == x.op = "Status"
        sel == SelectSeq(d, Sel)
    IN  IF Len(sel) = 0 THEN base ELSE sel[Len(sel)].v

\* base after the mutations declared by d, each in its turn.
Mutated(base, d) ==
    [Headers |-> [k \in MDKeys |-> base.Headers[k] \o Declared(d, "Header", k)],
     Messages |-> base.Messages \o Declared(d, "Response", ""),
     Trailers |-> [k \in MDKeys |-> base.Trailers[k] \o Declared(d, "Trailer", k)],
     Status |-> LastStatus(d, base.Status)]

\* The positions of the Handler calls in d.
HandlerCalls(d) == {j \in 1..Len(d) : d[j].op = "Handler"}

LastHandlerCall(d) ==
    CHOOSE j \in HandlerCalls(d) : \A i \in HandlerCalls(d) : i <= j

(***************************************************************************)
(* C11.  When only Header, Trailer, Response and Status were called on a   *)
(* matcher that had no handler, its handler returns a fresh empty Response *)
(* with the declared mutations applied in declaration order: per header    *)
(* and trailer key the declared values in order, the declared messages in  *)
(* order, and the status of the last Status call.                          *)
(***************************************************************************)
C11_DecoratorsInOrder ==
    \A c \in DOMAIN calls :
        \A j \in 1..Len(calls[c].fired) :
            LET f == calls[c].fired[j]
            IN  /\ f.nil <=> f.decl = <<>>
                /\ (f.decl # <<>> /\ HandlerCalls(f.decl) = {}) =>
                       f.res = Mutated(NewResponse, f.decl)

\* The chain Header(hello), Response(x), Header(Hello) was invoked.
C11_Witness ==
    \E c \in DOMAIN calls :
        /\ Len(calls[c].fired) = 1
        /\ calls[c].fired[1].decl =
               <<Deco("Header", "hello", "header"), Deco("Response", "", "x"),
                 Deco("Header", "Hello", "again")>>
        /\ calls[c].fired[1].res.Headers["hello"] = <<"header", "again">>
        /\ calls[c].fired[1].res.Messages = <<"x">>

(***************************************************************************)
(* C12.  After Handler(fn) the matcher's handler returns what fn returns   *)
(* for the request, with the mutations of the decorators called after that *)
(* Handler call applied in declaration order; the decorators called before *)
(* it leave no trace in the response.                                      *)
(***************************************************************************)
C12_HandlerReplaces ==
    \A c \in DOMAIN calls :
        \A j \in 1..Len(calls[c].fired) :
            LET f == calls[c].fired[j]
                d == f.decl
            IN  HandlerCalls(d) # {} =>
                    LET p == LastHandlerCall(d)
                    IN  /\ ~f.nil
                        /\ f.res = Mutated(UserFn(d[p].v, f.r),
                                           SubSeq(d, p + 1, Len(d)))

\* Response(x), then Handler(echo), then Header(hello) was invoked: the
\* reply is the echo alone, with the header.
C12_Witness ==
    \E c \in DOMAIN calls :
        /\ Len(calls[c].fired) = 1
        /\ calls[c].fired[1].decl =
               <<Deco("Response", "", "x"), Deco("Handler", "", "echo"),
                 Deco("Header", "hello", "header")>>
        /\ calls[c].fired[1].res.Messages = <<EchoDoc(calls[c].fired[1].r.Message)>>
        /\ calls[c].fired[1].res.Headers["hello"] = <<"header">>

(***************************************************************************)
(* C13.  In every call shape, when the Response returned by a fired        *)
(* matcher has an error status the call ends there: its outcome is that    *)
(* status (or the transport error of a header or trailer send that failed  *)
(* first, which the unary and streaming adapters attempt before they look  *)
(* at the status), none of that Response's Messages is sent, and the call  *)
(* evaluates no further matcher, fires no further handler and receives no  *)
(* further message.                                                        *)
(***************************************************************************)
C13_ErrorStatusEndsCall ==
    \A c \in DOMAIN calls :
        LET call == calls[c]
        IN  \A j \in 1..Len(call.fired) :
                LET f == call.fired[j]
                IN  StatusErr(f.res.Status) =>
                      /\ j = Len(call.fired)
                      /\ call.pc = "done"
                      /\ \/ call.outcome = f.res.Status
                         \/ call.outcome = "SendErr" /\ call.shape # "cstream"
                      /\ \A k \in 1..Len(call.replies) :
                             ~(call.replies[k].r = f.r.id /\ call.replies[k].m = f.m)
                      /\ call.evals[Len(call.evals)].r = f.r
                      /\ call.evals[Len(call.evals)].m = f.m
                      /\ call.nrecv = (IF call.shape = "cstream" THEN Len(call.rs)
                                       ELSE f.r.id[2])

\* A server-streaming call ended with the error status of the first of two
\* registered matchers, whose Response also held a message; nothing was sent.
C13_Witness ==
    \E c \in DOMAIN calls :
        /\ calls[c].shape = "sstream"
        /\ calls[c].pc = "done"
        /\ calls[c].outcome \in ErrorCodes
        /\ calls[c].n >= 2
        /\ Len(calls[c].fired) = 1
        /\ Len(calls[c].fired[1].res.Messages) >= 1
        /\ calls[c].replies = <<>>

(***************************************************************************)
(* C17.  (as claimed) In every adapter a receive that fails with an error  *)
(* other than end of input ends the call with that failure: from then on   *)
(* the call is done with the receive error as its outcome, it has sent no  *)
(* reply after the failure and it is not about to receive again.           *)
(***************************************************************************)
C17_RecvErrorEndsCall ==
    \A c \in DOMAIN calls :
        calls[c].rerr => calls[c].pc = "done" /\ calls[c].outcome = "RecvErr"

(***************************************************************************)
(* C14.  (as claimed) Once the status has been closed it is closed for     *)
(* good, whatever is called afterwards.                                    *)
(***************************************************************************)
C14_ClosedIsFinal == life.wasClosed => life.status = "closed"

(***************************************************************************)
(* C15.  (as claimed) Addr, Conn and Close called while the status is      *)
(* unknown, closing or closed report a usage error (t.Error), and Addr and *)
(* Conn then return the empty result.                                      *)
(***************************************************************************)
C15_UsageError ==
    \A ret \in life.rets :
        ret.at \in {"unknown", "closing", "closed"} =>
            /\ ret.err
            /\ ret.op \in {"Addr", "Conn"} => ret.val = "none"

(***************************************************************************)
(* C16.  A call of Close returns, with the status closed, whether or not   *)
(* the drain completes: it waits in the select with its timer armed or     *)
(* fired, takes the drain case only when the drain is done and the timer   *)
(* case only when the timer has fired, forces the stop exactly in the      *)
(* timer case, and when it receives from the timer's channel after the     *)
(* drain case the fired value is there.  Liveness is under LiveSpec, and   *)
(* up to a panic of the process.                                           *)
(***************************************************************************)
C16_Safe ==
    /\ life.pc = "select" =>
           /\ life.timer \in {"armed", "fired"}
           /\ life.timer = "fired" => life.tc = 1
    /\ life.pc \in {"stoptimer", "recvtimer"} =>
           life.path = "done" /\ life.drain = "done"
    /\ life.pc = "recvtimer" => life.timer = "fired" /\ life.tc = 1
    /\ life.stopped <=>
           \E ret \in life.rets : ret.op = "Close" /\ ret.val = "timer"
    /\ \A ret \in life.rets :
           ret.op = "Close" => (ret.err <=> ret.val = "none")
    /\ life.pc # "idle" => life.status = "closing"
    /\ (life.pc = "idle" /\ life.wasClosed) => life.status = "closed"
    /\ life.wasClosed <=> \E ret \in life.rets : ret.op = "Close"

C16_CloseReturns ==
    /\ []C16_Safe
    /\ (life.pc # "idle") ~> (crashed \/ (life.pc = "idle" /\ life.status = "closed"))

\* Close returned by its timer case while a call was still in flight and
\* the drain still waiting for it.
C16_Witness ==
    /\ life.pc = "idle"
    /\ life.status = "closed"
    /\ life.stopped
    /\ life.drain = "running"
    /\ \E c \in DOMAIN calls : calls[c].pc \notin {"idle", "done"}

(***************************************************************************)
(* C18.  The slices Server.Requests and matcher.Requests return are stable *)
(* snapshots of append-only logs: each log is the first len cells of its   *)
(* current array; whatever is recorded after a snapshot was returned, the  *)
(* cells the snapshot's window covers still hold the elements it held when *)
(* returned; every snapshot is a prefix of its log as it is now, and of    *)
(* every snapshot of the same log returned after it.                       *)
(***************************************************************************)
\* What the slice of a log reads now: the first n cells of its last array.
Window(arrays, n) ==
    IF n = 0 THEN <<>> ELSE SubSeq(arrays[Len(arrays)], 1, n)

\* The log snapshot sn was taken of, and its arrays.
LogOf(sn) == IF sn.log = 0 THEN requests ELSE matchers[sn.log].requests

ArraysOf(sn) == IF sn.log = 0 THEN backing ELSE matchers[sn.log].backing

\* What the slice a caller holds reads now.
ReadNow(sn) ==
    IF sn.len = 0 THEN <<>> ELSE SubSeq(ArraysOf(sn)[sn.array], 1, sn.len)

C18_SnapshotsStable ==
    /\ requests = Window(backing, Len(requests))
    /\ \A m \in DOMAIN matchers :
           matchers[m].requests = Window(matchers[m].backing, Len(matchers[m].requests))
    /\ \A j \in 1..Len(snaps) :
           /\ ReadNow(snaps[j]) = snaps[j].view
           /\ IsPrefix(snaps[j].view, LogOf(snaps[j]))
           /\ \A k \in 1..Len(snaps) :
                  (j < k /\ snaps[j].log = snaps[k].log) =>
                      IsPrefix(snaps[j].view, snaps[k].view)

\* A snapshot of three requests was taken of the global log, which then
\* grew in place, in the array the snapshot points to; an earlier snapshot
\* points to an array the log has left.
C18_Witness ==
    /\ Len(snaps) = 2
    /\ snaps[1].log = 0 /\ snaps[2].log = 0
    /\ snaps[1].len >= 1
    /\ snaps[1].array < snaps[2].array
    /\ snaps[2].len = 3
    /\ snaps[2].array = Len(backing)
    /\ Len(requests) = 4

(***************************************************************************)
(* C19.  (as claimed) The matcher list is accessed under the server's lock *)
(* only: no adapter reads it without the lock while a registration is      *)
(* writing it.                                                             *)
(***************************************************************************)
C19_MatcherListLocked == "matchers" \notin races

(***************************************************************************)
(* C20.  (as claimed) A matcher's predicate list and handler are accessed  *)
(* under the matcher's lock only: no adapter reads either without the lock *)
(* while a chaining call is writing it.                                    *)
(***************************************************************************)
C20_MatcherFieldsLocked == races \cap {"matchFuncs", "handler"} = {}

(***************************************************************************)
(* C21.  (as claimed) A client-streaming call that ended with the reply or *)
(* with the error status of the Response its handler returned has emitted  *)
(* every header and every trailer of that Response.                        *)
(***************************************************************************)
Emitted(sent, md) == \E ord \in KeyOrders : sent = MDPairs(md, ord)

C21_ClientStreamEmitsMetadata ==
    \A c \in DOMAIN calls :
        LET call == calls[c]
        IN  (/\ call.shape = "cstream"
             /\ call.pc = "done"
             /\ Len(call.fired) > 0
             /\ call.outcome \in {"OK"} \cup ErrorCodes) =>
                LET res == call.fired[Len(call.fired)].res
                IN  /\ Emitted(call.headers, res.Headers)
                    /\ Emitted(call.trailers, res.Trailers)

(***************************************************************************)
(* C22.  Within one bidirectional-streaming call the headers emitted are   *)
(* those of the first matched Response that has any, and of no later one:  *)
(* all of them once a later handler has fired or the call went on, a       *)
(* prefix of them if a send failed.  A matched Response without headers    *)
(* leaves the latch unset, and each call has its own latch.                *)
(***************************************************************************)
WithHeaders(fi) == {j \in 1..Len(fi) : Count(fi[j].res.Headers) > 0}

FirstOf(S) == CHOOSE j \in S : \A k \in S : j <= k

C22_HeaderLatch ==
    \A c \in DOMAIN calls :
        LET call == calls[c]
            fi == call.fired
            hs == WithHeaders(fi)
        IN  call.shape = "bidi" /\ ~crashed =>
              /\ hs = {} => call.headers = <<>> /\ ~call.headerSent
              /\ hs # {} =>
                   LET first == fi[FirstOf(hs)].res.Headers
                   IN  /\ \E ord \in KeyOrders :
                              IsPrefix(call.headers, MDPairs(first, ord))
                       /\ call.headerSent <=> call.headers # <<>>
                       /\ (FirstOf(hs) < Len(fi) \/ call.pc # "done"
                              \/ call.outcome # "SendErr") =>
                              Emitted(call.headers, first)

\* A bidirectional call fired two handlers whose Responses both have
\* headers, and emitted the headers of the first only.
C22_Witness ==
    \E c \in DOMAIN calls :
        /\ calls[c].shape = "bidi"
        /\ Len(calls[c].fired) = 2
        /\ WithHeaders(calls[c].fired) = {1, 2}
        /\ calls[c].pc = "done"
        /\ calls[c].outcome = "OK"
        /\ Emitted(calls[c].headers, calls[c].fired[1].res.Headers)

(***************************************************************************)
(* C23.  A unary or client-streaming call that ended without error after   *)
(* its handler returned a Response sent exactly one reply: the first       *)
(* element of the Response's Messages if there is one, the default empty   *)
(* document otherwise.  Such a call sends no reply in any other case, so   *)
(* no later element of Messages is ever sent.                              *)
(***************************************************************************)
C23_SingleReplyIsFirstMessage ==
    \A c \in DOMAIN calls :
        LET call == calls[c]
            fi == call.fired
        IN  call.shape \in {"unary", "cstream"} =>
              /\ call.replies # <<>> =>
                     /\ call.pc = "done" /\ call.outcome = "OK" /\ Len(fi) = 1
              /\ (call.pc = "done" /\ call.outcome = "OK") =>
                     /\ Len(fi) = 1
                     /\ ~StatusErr(fi[1].res.Status)
                     /\ call.replies =
                            <<[r |-> fi[1].r.id, m |-> fi[1].m,
                               doc |-> IF Len(fi[1].res.Messages) > 0
                                       THEN fi[1].res.Messages[1] ELSE DefaultDoc]>>

\* A client-streaming call was answered with the default document: the
\* Response of the matcher that fired had no message.
C23_Witness ==
    \E c \in DOMAIN calls :
        /\ calls[c].shape = "cstream"
        /\ calls[c].pc = "done"
        /\ calls[c].outcome = "OK"
        /\ calls[c].fired[1].res.Messages = <<>>
        /\ calls[c].replies[1].doc = DefaultDoc

(***************************************************************************)
(* C24.  (as claimed) Whenever the status of the server is status_start,   *)
(* its listener has been opened.                                           *)
(***************************************************************************)
C24_ServingHasListener == life.status = "start" => life.listener

(***************************************************************************)
(* C25.  Every registered matcher has at least one predicate.  A step      *)
(* either leaves the matcher list as long as it was and every predicate    *)
(* list a prefix of what it becomes, or adds one matcher with exactly one  *)
(* predicate at the end and leaves the predicate lists of the others       *)
(* alone: no predicate and no matcher is removed or moved.                 *)
(***************************************************************************)
C25_HasPredicate == \A m \in DOMAIN matchers : Len(matchers[m].matchFuncs) >= 1

C25_OnlyGrows ==
    /\ Len(matchers') \in {Len(matchers), Len(matchers) + 1}
    /\ \A m \in DOMAIN matchers :
           IF Len(matchers') = Len(matchers)
           THEN IsPrefix(matchers[m].matchFuncs, matchers'[m].matchFuncs)
           ELSE matchers'[m].matchFuncs = matchers[m].matchFuncs
    /\ Len(matchers') = Len(matchers) + 1 =>
           Len(matchers'[Len(matchers')].matchFuncs) = 1

C25_MatchersKeepPredicates == [](C25_HasPredicate) /\ [][C25_OnlyGrows]_vars

\* Two matchers are registered, the first with a chained second predicate.
C25_Witness ==
    /\ Len(matchers) = 2
    /\ Len(matchers[1].matchFuncs) = 2
    /\ Len(matchers[2].matchFuncs) = 1

(***************************************************************************)
(* C26.  (as claimed) The handler an adapter calls is never unset: no call *)
(* has invoked the nil handler of a matcher on which no Header, Trailer,   *)
(* Response, Status or Handler call was made, and the process has not      *)
(* ended in the panic that follows.                                        *)
(***************************************************************************)
C26_HandlerInstalled ==
    /\ ~crashed
    /\ \A c \in DOMAIN calls :
           \A j \in 1..Len(calls[c].fired) : ~calls[c].fired[j].nil

(***************************************************************************)
(* C27.  No goroutine holds s.mu and the mu of a matcher at once, every    *)
(* predicate and handler of the user was called by a goroutine that held   *)
(* no lock, and while any goroutine has work left one of them can take its *)
(* next step: no interleaving of calls, registrations and Requests readers *)
(* deadlocks, also when predicates and handlers call Requests themselves.  *)
(***************************************************************************)
Blocked(g) ==
    /\ Working(g)
    /\ \/ Next1(g).op = "Lock" /\ g \in mu[Next1(g).lock].q
                               /\ ~Available(Next1(g).lock)
       \/ Next1(g).op = "RLock" /\ ~Readable(Next1(g).lock)

C27_NoDeadlock ==
    /\ \A g \in Goroutines :
           /\ ~(0 \in gos[g].held /\ gos[g].held \ {0} # {})
           /\ gos[g].bare
           /\ ~gos[g].user => (gos[g].held = {} \/ Next1(g).op = "Unlock"
                                  \/ Next1(g).op = "RUnlock")
    /\ (\E g \in Goroutines : Working(g)) =>
           \E g \in Goroutines : Working(g) /\ ~Blocked(g)

\* A handler is reading the log of its matcher through Requests while the
\* test is blocked in Lock on the same matcher and the other call is kept
\* out of RLock by it.
C27_Witness ==
    \E g, h \in Goroutines \ {0} :
        /\ g # h
        /\ gos[g].user
        /\ 1 \in gos[g].held
        /\ 0 \in mu[1].q
        /\ Blocked(0)
        /\ Blocked(h)
        /\ gos[h].user

(***************************************************************************)
(* C28.  Every request in the log of a matcher is in the global log, where *)
(* it was before the matcher's log received it, and no request is twice in *)
(* the log of one matcher.                                                 *)
(***************************************************************************)
C28_Captured ==
    \A m \in DOMAIN matchers :
        LET log == matchers[m].requests
        IN  /\ \A j \in 1..Len(log) :
                   \E k \in 1..Len(requests) : requests[k] = log[j]
            /\ \A i, j \in 1..Len(log) : i # j => log[i].id # log[j].id

C28_CapturedAfterRecorded ==
    \A m \in DOMAIN matchers :
        LET log == matchers[m].requests
            new == matchers'[m].requests
        IN  \A j \in 1..Len(new) :
                j > Len(log) => \E k \in 1..Len(requests) : requests[k] = new[j]

C28_MatcherLogWithinGlobalLog ==
    [](C28_Captured) /\ [][C28_CapturedAfterRecorded]_vars

\* Two requests are in the log of one matcher, and one of them is in the
\* log of a second matcher as well.
C28_Witness ==
    /\ Len(matchers) >= 2
    /\ Len(matchers[1].requests) >= 2
    /\ \E j \in 1..Len(matchers[2].requests) :
           \E i \in 1..Len(matchers[1].requests) :
               matchers[1].requests[i] = matchers[2].requests[j]

====
